---- MODULE Spec2Model ----
(***************************************************************************)
(* Model of the UREC shift scheduler (src/main.py).                        *)
(*                                                                         *)
(* schedule_workers_softmin_hardmax builds a CP-SAT model and hands it to  *)
(* the OR-Tools solver.  The solver is an external library: it is modelled *)
(* by its contract.  A solve returns OPTIMAL with an assignment of the     *)
(* model's variables that satisfies every constraint and minimises the     *)
(* objective, FEASIBLE with any assignment that satisfies every constraint *)
(* (the time limit ended the search), or no assignment at all (the model   *)
(* is infeasible, or the time limit ended the search before a solution).   *)
(***************************************************************************)
EXTENDS Integers, Sequences, FiniteSets, TLC

VARIABLES
    employees,        \* SchedulerUI.employees: sequence of [name, unavailable]
    emp_tree,         \* rows of SchedulerUI.emp_tree: <<name, shown hours>>
    spin,             \* the four IntVars of the top controls
    last_result,      \* SchedulerUI.last_result: "None" or "ok" (content not kept)
    msg,              \* the messagebox the last handler showed, "" for none
    caller,           \* who called the core: "none", "api" or "ui"
    pc,               \* position of the core call: "idle", "built", "returned"
    args,             \* arguments of the running call of the core
    feasible_shifts,  \* feasible_shifts of the running call, one list per employee
    status,           \* status of solver.Solve
    sol,              \* values of the solver's variables x and understaff
    result,           \* the dict the core returned
    terms,            \* objective terms of two assignments of one model
    objective_values, \* their objective values
    shift_pc,         \* position of a call of build_candidate_shifts
    shift_args,       \* its arguments
    shifts            \* the list it returned

uiVars   == <<employees, emp_tree, spin, last_result, msg>>
coreVars == <<caller, pc, args, feasible_shifts, status, sol, result>>
objVars  == <<terms, objective_values>>
shiftVars == <<shift_pc, shift_args, shifts>>
vars     == <<employees, emp_tree, spin, last_result, msg,
              caller, pc, args, feasible_shifts, status, sol, result,
              terms, objective_values, shift_pc, shift_args, shifts>>

(***************************************************************************)
(* Bounds of the model.                                                    *)
(***************************************************************************)
MaxWorkers == 2   \* longest employee list
MaxSlack == 1     \* how far a FEASIBLE solution's understaff exceeds the shortfall

(***************************************************************************)
(* Constants of the program.                                               *)
(***************************************************************************)
UnderstaffMax == 1000      \* NewIntVar(0, 1000, "understaff_h")
WorkHoursMax == 24         \* NewIntVar(0, 24, ...) of workhours, max_work, min_work, spread
TotalMax == 10000          \* NewIntVar(0, 10000, ...) of total_coverage, total_understaff
UnderstaffWeight == 100000 \* Minimize(total_understaff * 100000 + ...)
SpreadWeight == 1000       \* ... + spread * 1000 + total_coverage)
DefaultDayStart == 8
DefaultDayLength == 12
DefaultMinCov == 1
DefaultMaxCov == 2
MaxHour == 23              \* add_employee: hours must be 0..23

NoShift == <<>>            \* None as a reported shift
NoValue == <<>>            \* a variable of the call frame that holds nothing

DefaultLengths == <<4, 5>>

WorkerNames == <<"Alex", "Brianna", "Carlos", "Diana", "Ethan", "Faith">>

(***************************************************************************)
(* Arithmetic helpers.                                                     *)
(***************************************************************************)
Max2(a, b) == IF a >= b THEN a ELSE b

RECURSIVE SeqSum(_)
SeqSum(s) == IF s = <<>> THEN 0 ELSE Head(s) + SeqSum(Tail(s))

SeqMax(s) == CHOOSE m \in {s[i] : i \in 1..Len(s)} : \A i \in 1..Len(s) : s[i] <= m

SeqMin(s) == CHOOSE m \in {s[i] : i \in 1..Len(s)} : \A i \in 1..Len(s) : s[i] >= m

\* sorted(list(set)): the elements in increasing order
RECURSIVE SortedSeq(_)
SortedSeq(S) ==
    IF S = {} THEN <<>>
    ELSE LET m == CHOOSE m \in S : \A y \in S : m <= y
         IN  <<m>> \o SortedSeq(S \ {m})

(***************************************************************************)
(* build_candidate_shifts and overlaps_unavailability.                     *)
(***************************************************************************)
\* the inner loop: for start in range(day_start_hour, day_end_hour - L + 1)
ShiftsOfLength_short(day_start_hour, day_end_hour, L) ==
    [i \in 1..Max2(0, day_end_hour - L - day_start_hour) |->
        <<day_start_hour + i - 1, day_start_hour + i - 1 + L>>]

\* for start in range(day_start_hour, day_end_hour - L + 1)
ShiftsOfLength(day_start_hour, day_end_hour, L) ==
    [i \in 1..Max2(0, day_end_hour - L + 1 - day_start_hour) |->
        <<day_start_hour + i - 1, day_start_hour + i - 1 + L>>]

RECURSIVE build_candidate_shifts(_, _, _)
build_candidate_shifts(day_start_hour, day_length_hours, allowed_lengths) ==
    IF allowed_lengths = <<>> THEN <<>>
    ELSE ShiftsOfLength(day_start_hour, day_start_hour + day_length_hours,
                        Head(allowed_lengths))
         \o build_candidate_shifts(day_start_hour, day_length_hours,
                                   Tail(allowed_lengths))

overlaps_unavailability_short(shift, unavailable_blocks) ==
    \E h \in shift[1]..(shift[2] - 2) : h \in unavailable_blocks

overlaps_unavailability(shift, unavailable_blocks) ==
    \E h \in shift[1]..(shift[2] - 1) : h \in unavailable_blocks

\* feasible = [s for s in all_shifts if not overlaps_unavailability(s, unavailable)]
FeasibleFor(all_shifts, unavailable) ==
    SelectSeq(all_shifts, LAMBDA s : ~overlaps_unavailability(s, unavailable))

FeasibleShifts(a) ==
    LET all_shifts == build_candidate_shifts(a.day_start_hour, a.day_length_hours,
                                             a.allowed_shift_lengths)
    IN  [e \in 1..Len(a.employees) |->
            FeasibleFor(all_shifts, a.employees[e].unavailable)]

Hours(a) == a.day_start_hour..(a.day_start_hour + a.day_length_hours - 1)

(***************************************************************************)
(* The CP-SAT model.  An assignment of the decision variables x is the set *)
(* of the pairs <<e, s>> with x[(e, s)] = 1; s indexes feasible_shifts[e]. *)
(***************************************************************************)
Pairs(fs) == UNION {{<<e, s>> : s \in 1..Len(fs[e])} : e \in 1..Len(fs)}

ShiftOf(fs, p) == fs[p[1]][p[2]]

ShiftLength(s) == s[2] - s[1]

\* the assignments with sum(x[(e, s)] for s) <= 1 for every employee e
OneShiftAssignments(fs) ==
    LET K == IF Len(fs) = 0 THEN 0 ELSE SeqMax([e \in 1..Len(fs) |-> Len(fs[e])])
        choices == {c \in [1..Len(fs) -> 0..K] : \A e \in 1..Len(fs) : c[e] <= Len(fs[e])}
    IN  {{<<e, c[e]>> : e \in {d \in 1..Len(fs) : c[d] # 0}} : c \in choices}

ModelAssignments_unlimited(fs, max_one_shift_per_employee) == SUBSET Pairs(fs)

\* the values of x the model allows: every 0/1 assignment, cut down by the
\* optional constraint
ModelAssignments(fs, max_one_shift_per_employee) ==
    IF max_one_shift_per_employee THEN OneShiftAssignments(fs) ELSE SUBSET Pairs(fs)

\* cov == sum(cover_terms): the selected shifts with start <= h < end
CoverageValue(fs, x, h) ==
    Cardinality({p \in x : ShiftOf(fs, p)[1] <= h /\ h < ShiftOf(fs, p)[2]})

\* wh == sum(x[(e, s)] * (end - start))
WorkHoursValue(fs, x, e) ==
    SeqSum([s \in 1..Len(fs[e]) |->
               IF <<e, s>> \in x THEN ShiftLength(fs[e][s]) ELSE 0])

WorkHoursSeq(fs, x) == [e \in 1..Len(fs) |-> WorkHoursValue(fs, x, e)]

\* AddMaxEquality / AddMinEquality: the target is the largest (smallest) of the
\* values; over an empty list no target satisfies it
MaxEqualityHolds(target, values) ==
    /\ \E i \in 1..Len(values) : values[i] = target
    /\ \A i \in 1..Len(values) : values[i] <= target

MinEqualityHolds(target, values) ==
    /\ \E i \in 1..Len(values) : values[i] = target
    /\ \A i \in 1..Len(values) : values[i] >= target

SpreadValue(fs, x) == SeqMax(WorkHoursSeq(fs, x)) - SeqMin(WorkHoursSeq(fs, x))

TotalCoverageValue(a, fs, x) ==
    SeqSum([i \in 1..a.day_length_hours |->
               CoverageValue(fs, x, a.day_start_hour + i - 1)])

TotalUnderstaffValue(a, u) ==
    SeqSum([i \in 1..a.day_length_hours |-> u[a.day_start_hour + i - 1]])

HardCap_dropped(cov, max_workers_per_hour) == TRUE

\* model.Add(cov <= max_workers_per_hour)
HardCap(cov, max_workers_per_hour) == cov <= max_workers_per_hour

SoftMin_loose(cov, under, min_workers_per_hour) == cov + under >= min_workers_per_hour - 1

\* model.Add(cov + understaff[h] >= min_workers_per_hour)
SoftMin(cov, under, min_workers_per_hour) == cov + under >= min_workers_per_hour

\* cov = NewIntVar(0, len(employees)), cov == sum(cover_terms), and the hard cap
CoverageConstraints(a, fs, x) ==
    \A h \in Hours(a) :
        /\ HardCap(CoverageValue(fs, x, h), a.max_workers_per_hour)
        /\ CoverageValue(fs, x, h) \in 0..Len(a.employees)

\* wh = NewIntVar(0, 24) per employee; max_work, min_work and spread in 0..24
WorkConstraints(fs, x) ==
    /\ \A e \in 1..Len(fs) : WorkHoursValue(fs, x, e) \in 0..WorkHoursMax
    /\ \E max_work \in 0..WorkHoursMax : MaxEqualityHolds(max_work, WorkHoursSeq(fs, x))
    /\ \E min_work \in 0..WorkHoursMax : MinEqualityHolds(min_work, WorkHoursSeq(fs, x))
    /\ SpreadValue(fs, x) \in 0..WorkHoursMax

\* understaff[h] = NewIntVar(0, 1000), the soft minimum, and total_understaff
UnderstaffConstraints(a, fs, x, u) ==
    /\ \A h \in Hours(a) :
          /\ u[h] \in 0..UnderstaffMax
          /\ SoftMin(CoverageValue(fs, x, h), u[h], a.min_workers_per_hour)
    /\ TotalUnderstaffValue(a, u) \in 0..TotalMax

\* the constraints on x alone
AssignmentConstraints(a, fs, x) ==
    /\ CoverageConstraints(a, fs, x)
    /\ WorkConstraints(fs, x)
    /\ TotalCoverageValue(a, fs, x) \in 0..TotalMax

\* every variable within its domain and every constraint of the model
ModelConstraints(a, fs, x, u) ==
    /\ AssignmentConstraints(a, fs, x)
    /\ UnderstaffConstraints(a, fs, x, u)

Objective_no_understaff(total_understaff, spread, total_coverage) ==
    spread * SpreadWeight + total_coverage

Objective_flat(total_understaff, spread, total_coverage) ==
    total_understaff * 10000 + spread * SpreadWeight + total_coverage

\* total_understaff * 100000 + spread * 1000 + total_coverage
Objective(total_understaff, spread, total_coverage) ==
    total_understaff * UnderstaffWeight + spread * SpreadWeight + total_coverage

ObjectiveOf(a, fs, s) ==
    Objective(TotalUnderstaffValue(a, s.understaff), SpreadValue(fs, s.x),
              TotalCoverageValue(a, fs, s.x))

(***************************************************************************)
(* The solver's search space.  x ranges over every assignment the model    *)
(* allows.  understaff[h] ranges over 0..1000 in the program; the model    *)
(* draws it from a window around the least value the soft minimum allows:  *)
(* the shortfall moved by k at every hour, k from -1 (which the soft       *)
(* minimum rejects wherever there is a shortfall) up to MaxSlack.          *)
(***************************************************************************)
Shortfall(a, fs, x, h) == Max2(0, a.min_workers_per_hour - CoverageValue(fs, x, h))

UnderstaffCandidates(a, fs, x) ==
    {[h \in Hours(a) |-> Max2(0, Shortfall(a, fs, x, h) + k)] : k \in (-1)..MaxSlack}

\* the candidates that satisfy ModelConstraints
Feasible(a, fs) ==
    LET xs == {x \in ModelAssignments(fs, a.max_one_shift_per_employee) :
                  AssignmentConstraints(a, fs, x)}
    IN  UNION {{[x |-> x, understaff |-> u] :
                   u \in {v \in UnderstaffCandidates(a, fs, x) :
                             UnderstaffConstraints(a, fs, x, v)}} : x \in xs}

\* the feasible assignments with the least objective
Optimal(a, fs) ==
    LET scored == {<<s, ObjectiveOf(a, fs, s)>> : s \in Feasible(a, fs)}
        best   == CHOOSE m \in {t[2] : t \in scored} : \A t \in scored : m <= t[2]
    IN  {t[1] : t \in {r \in scored : r[2] = best}}

(***************************************************************************)
(* Extraction and the result dict.                                         *)
(***************************************************************************)
\* for s_idx, s in enumerate(shifts): if Value(x) == 1: chosen = s; break
ChosenShift(fs, x, e) ==
    LET picked == {s \in 1..Len(fs[e]) : <<e, s>> \in x}
    IN  IF picked = {} THEN NoShift
        ELSE fs[e][CHOOSE s \in picked : \A t \in picked : s <= t]

OkResult(a, fs, s) ==
    [status               |-> "ok",
     day_start_hour       |-> a.day_start_hour,
     day_end_hour         |-> a.day_start_hour + a.day_length_hours,
     min_workers_per_hour |-> a.min_workers_per_hour,
     max_workers_per_hour |-> a.max_workers_per_hour,
     fairness_spread      |-> SpreadValue(fs, s.x),
     total_understaff     |-> TotalUnderstaffValue(a, s.understaff),
     coverage_by_hour     |-> [h \in Hours(a) |-> CoverageValue(fs, s.x, h)],
     understaff_by_hour   |-> [h \in Hours(a) |-> s.understaff[h]],
     assignments          |->
        [i \in 1..Len(a.employees) |->
            [employee    |-> a.employees[i].name,
             shift       |-> ChosenShift(fs, s.x, i),
             work_hours  |-> WorkHoursValue(fs, s.x, i),
             unavailable |-> SortedSeq(a.employees[i].unavailable)]]]

NoSolutionResult == [status |-> "no_solution"]

(***************************************************************************)
(* The steps of one call of schedule_workers_softmin_hardmax.              *)
(***************************************************************************)
\* lines 74-149: candidate shifts, feasible shifts, the model
BuildModel(a, who) ==
    /\ pc = "idle"
    /\ caller' = who
    /\ pc' = "built"
    /\ args' = a
    /\ feasible_shifts' = FeasibleShifts(a)
    /\ status' = "NONE"
    /\ sol' = NoValue
    /\ result' = NoValue

\* lines 151-190 when the solver proves a solution optimal
SolveOptimal ==
    /\ pc = "built"
    /\ \E s \in Optimal(args, feasible_shifts) :
          /\ status' = "OPTIMAL"
          /\ sol' = s
          /\ result' = OkResult(args, feasible_shifts, s)
    /\ pc' = "returned"
    /\ UNCHANGED <<caller, args, feasible_shifts>>
    /\ UNCHANGED uiVars
    /\ UNCHANGED objVars
    /\ UNCHANGED shiftVars

\* lines 151-190 when the time limit ends the search with a solution in hand
SolveFeasible ==
    /\ pc = "built"
    /\ \E s \in Feasible(args, feasible_shifts) :
          /\ status' = "FEASIBLE"
          /\ sol' = s
          /\ result' = OkResult(args, feasible_shifts, s)
    /\ pc' = "returned"
    /\ UNCHANGED <<caller, args, feasible_shifts>>
    /\ UNCHANGED uiVars
    /\ UNCHANGED objVars
    /\ UNCHANGED shiftVars

\* lines 151-156: the model has no solution
SolveInfeasible ==
    /\ pc = "built"
    /\ Feasible(args, feasible_shifts) = {}
    /\ status' = "INFEASIBLE"
    /\ sol' = NoValue
    /\ result' = NoSolutionResult
    /\ pc' = "returned"
    /\ UNCHANGED <<caller, args, feasible_shifts>>
    /\ UNCHANGED uiVars
    /\ UNCHANGED objVars
    /\ UNCHANGED shiftVars

\* lines 151-156: the time limit ends the search before any solution
SolveTimeout ==
    /\ pc = "built"
    /\ Feasible(args, feasible_shifts) # {}
    /\ status' = "UNKNOWN"
    /\ sol' = NoValue
    /\ result' = NoSolutionResult
    /\ pc' = "returned"
    /\ UNCHANGED <<caller, args, feasible_shifts>>
    /\ UNCHANGED uiVars
    /\ UNCHANGED objVars
    /\ UNCHANGED shiftVars

ClearFrame ==
    /\ caller' = "none"
    /\ pc' = "idle"
    /\ args' = NoValue
    /\ feasible_shifts' = NoValue
    /\ status' = "NONE"
    /\ sol' = NoValue
    /\ result' = NoValue

(***************************************************************************)
(* Calls of the core with arguments of the caller's choice.                *)
(***************************************************************************)
UnavailableChoices == {{}, {10}, {12}}
DayLengthChoices == {0, 3, 5}
MinChoices == {-1, 0, 1, 2, 1002}
MaxChoices == {0, 1, 2, 1002}

Employee(name, unavailable) == [name |-> name, unavailable |-> unavailable]

EmployeeLists ==
    UNION {{[i \in 1..n |-> Employee(WorkerNames[i], u[i])] :
               u \in [1..n -> UnavailableChoices]} : n \in 0..MaxWorkers}

CallArgs(emps, day_start, day_length, lengths, min_w, max_w, one_shift) ==
    [employees                  |-> emps,
     day_start_hour             |-> day_start,
     day_length_hours           |-> day_length,
     allowed_shift_lengths      |-> lengths,
     min_workers_per_hour       |-> min_w,
     max_workers_per_hour       |-> max_w,
     max_one_shift_per_employee |-> one_shift]

Call ==
    /\ \E emps \in EmployeeLists, day_length \in DayLengthChoices,
          min_w \in MinChoices, max_w \in MaxChoices, one_shift \in BOOLEAN :
          BuildModel(CallArgs(emps, DefaultDayStart, day_length, DefaultLengths,
                              min_w, max_w, one_shift), "api")
    /\ UNCHANGED uiVars
    /\ UNCHANGED objVars
    /\ UNCHANGED shiftVars

Return ==
    /\ pc = "returned"
    /\ caller = "api"
    /\ ClearFrame
    /\ UNCHANGED uiVars
    /\ UNCHANGED objVars
    /\ UNCHANGED shiftVars

UiInit ==
    /\ employees = <<>>
    /\ emp_tree = <<>>
    /\ spin = [day_start |-> DefaultDayStart, day_length |-> DefaultDayLength,
               min_cov |-> DefaultMinCov, max_cov |-> DefaultMaxCov]
    /\ last_result = "None"
    /\ msg = ""

CoreInit ==
    /\ caller = "none"
    /\ pc = "idle"
    /\ args = NoValue
    /\ feasible_shifts = NoValue
    /\ status = "NONE"
    /\ sol = NoValue
    /\ result = NoValue

ObjInit ==
    /\ terms = NoValue
    /\ objective_values = NoValue

ShiftInit ==
    /\ shift_pc = "idle"
    /\ shift_args = NoValue
    /\ shifts = NoValue

Init == UiInit /\ CoreInit /\ ObjInit /\ ShiftInit

Next ==
    \/ Call
    \/ SolveOptimal
    \/ SolveFeasible
    \/ SolveInfeasible
    \/ SolveTimeout
    \/ Return

Spec == Init /\ [][Next]_vars

(***************************************************************************)
(* Properties of a returned result.                                        *)
(***************************************************************************)
Solved == pc = "returned" /\ result.status = "ok"

Assigned(i) == result.assignments[i].shift # NoShift

\* the entries of result["assignments"] whose reported shift covers hour h
ReportedOnDuty(h) ==
    {i \in 1..Len(result.assignments) :
        /\ Assigned(i)
        /\ result.assignments[i].shift[1] <= h
        /\ h < result.assignments[i].shift[2]}

\* C1: in every result with status "ok", the coverage of every hour of the day
\* is at most max_workers_per_hour.
C1_HardMax ==
    Solved =>
        \A h \in Hours(args) : result.coverage_by_hour[h] <= args.max_workers_per_hour

\* an ok result where more workers than the cap allows were supplied and an
\* hour sits exactly at the cap
C1_Witness ==
    /\ Solved
    /\ Len(args.employees) > args.max_workers_per_hour
    /\ \E h \in Hours(args) :
          /\ result.coverage_by_hour[h] = args.max_workers_per_hour
          /\ result.coverage_by_hour[h] >= 1

\* C2: in every result with status "ok", at every hour of the day coverage plus
\* understaff is at least min_workers_per_hour, and understaff is not negative.
C2_SoftMin ==
    Solved =>
        \A h \in Hours(args) :
            /\ result.understaff_by_hour[h] >= 0
            /\ result.coverage_by_hour[h] + result.understaff_by_hour[h]
                   >= args.min_workers_per_hour

\* an ok result with an hour below the minimum whose understaff makes up the gap
C2_Witness ==
    /\ Solved
    /\ \E h \in Hours(args) :
          /\ result.coverage_by_hour[h] < args.min_workers_per_hour
          /\ result.understaff_by_hour[h] > 0
    /\ \E h \in Hours(args) : result.coverage_by_hour[h] >= 1

\* C3: in every successful result, whatever the one-shift-per-worker flag, the
\* coverage of every hour equals the number of reported shifts that cover it.
C3_CoverageIsReportedCount ==
    Solved =>
        \A h \in Hours(args) :
            result.coverage_by_hour[h] = Cardinality(ReportedOnDuty(h))

\* the assignment that selects no shift and sets understaff to min_coverage
NoShiftAssignment == {}

FullUnderstaff(a) == [h \in Hours(a) |-> a.min_workers_per_hour]

ValidCoverageBand(a) ==
    a.max_workers_per_hour >= a.min_workers_per_hour /\ a.min_workers_per_hour >= 0

\* C4: for every worker list and every configuration with max >= min >= 0, the
\* model is satisfiable by selecting no shift and setting understaff to
\* min_coverage at every hour, so no solve ends with an infeasible model.
C4_AlwaysSatisfiable ==
    (pc \in {"built", "returned"} /\ ValidCoverageBand(args)) =>
        /\ ModelConstraints(args, feasible_shifts, NoShiftAssignment, FullUnderstaff(args))
        /\ status # "INFEASIBLE"

\* C6: a solve request with zero workers is rejected before a model is built
\* and before the solver is called.
C6_ZeroWorkersRejected ==
    pc \in {"built", "returned"} => Len(args.employees) > 0

SelectedShifts(e) == {p \in sol.x : p[1] = e}

\* C9: with max_one_shift_per_employee enabled, in every successful result each
\* worker has at most one selected decision variable, and the reported
\* work_hours is the length of the reported shift, or 0 when the shift is None.
C9_OneShift ==
    (Solved /\ args.max_one_shift_per_employee) =>
        \A e \in 1..Len(args.employees) :
            /\ Cardinality(SelectedShifts(e)) <= 1
            /\ result.assignments[e].work_hours =
                  IF Assigned(e)
                  THEN result.assignments[e].shift[2] - result.assignments[e].shift[1]
                  ELSE 0

\* an ok result under the flag where one worker works a shift and another none
C9_Witness ==
    /\ Solved
    /\ args.max_one_shift_per_employee
    /\ \E e \in 1..Len(args.employees) :
          Assigned(e) /\ result.assignments[e].work_hours >= 4
    /\ \E e \in 1..Len(args.employees) :
          ~Assigned(e) /\ Len(feasible_shifts[e]) > 0

\* every candidate shift of the day contains an unavailable hour of worker e
BlockedEverywhere(e) ==
    LET all_shifts == build_candidate_shifts(args.day_start_hour, args.day_length_hours,
                                             args.allowed_shift_lengths)
    IN  \A k \in 1..Len(all_shifts) :
            \E h \in args.employees[e].unavailable :
                all_shifts[k][1] <= h /\ h < all_shifts[k][2]

\* C10: in every successful result no reported shift contains an unavailable
\* hour of its worker, and a worker whose unavailable hours meet every
\* candidate shift is reported with shift None and work_hours 0.
C10_Unavailability ==
    Solved =>
        \A e \in 1..Len(args.employees) :
            /\ Assigned(e) =>
                  \A h \in args.employees[e].unavailable :
                      ~(result.assignments[e].shift[1] <= h
                        /\ h < result.assignments[e].shift[2])
            /\ BlockedEverywhere(e) =>
                  ~Assigned(e) /\ result.assignments[e].work_hours = 0

\* an ok result where one worker is blocked at every candidate shift and another,
\* who has an unavailable hour inside the day, works a shift around it
C10_Witness ==
    /\ Solved
    /\ Len(build_candidate_shifts(args.day_start_hour, args.day_length_hours,
                                  args.allowed_shift_lengths)) > 0
    /\ \E e \in 1..Len(args.employees) : BlockedEverywhere(e) /\ ~Assigned(e)
    /\ \E e \in 1..Len(args.employees) :
          /\ Assigned(e)
          /\ args.employees[e].unavailable # {}
          /\ args.employees[e].unavailable \subseteq Hours(args)

(***************************************************************************)
(* The Tk application: the employee list, the spinboxes, Run Scheduler.    *)
(* A handler runs to its end before the next one starts, so the handlers   *)
(* below are enabled only while no call of the core is under way.          *)
(***************************************************************************)
MaxRows == 1   \* longest employee list typed in through Add Employee

NameInputs == {"", "Alex"}
HourInputs == {{}, {10}, {12}, {24}}
DayLengthInputs == {0, 3, 5}
CovInputs == {-1, 0, 1, 2, 1002}

\* ",".join(str(h) for h in sorted(unavailable)): the hours in increasing order
ShownHours(unavailable) == SortedSeq(unavailable)

TreeRow(name, unavailable) == <<name, ShownHours(unavailable)>>

\* SchedulerUI.add_employee, with the name stripped and the hours parsed; the
\* list grows up to cap employees
AddEmployeeUpTo(cap) ==
    /\ pc = "idle"
    /\ \E name \in NameInputs, unavailable \in HourInputs :
          IF name = ""
          THEN /\ msg' = "Missing name"
               /\ UNCHANGED <<employees, emp_tree>>
          ELSE IF \E h \in unavailable : h < 0 \/ h > MaxHour
          THEN /\ msg' = "Invalid hours"
               /\ UNCHANGED <<employees, emp_tree>>
          ELSE /\ Len(employees) < cap
               /\ employees' = Append(employees, Employee(name, unavailable))
               /\ emp_tree' = Append(emp_tree, TreeRow(name, unavailable))
               /\ msg' = ""
    /\ UNCHANGED <<spin, last_result>>
    /\ UNCHANGED coreVars
    /\ UNCHANGED objVars
    /\ UNCHANGED shiftVars

AddEmployee == AddEmployeeUpTo(MaxRows)

\* SchedulerUI.clear_all
ClearAll ==
    /\ pc = "idle"
    /\ employees' = <<>>
    /\ last_result' = "None"
    /\ emp_tree' = <<>>
    /\ msg' = ""
    /\ UNCHANGED spin
    /\ UNCHANGED coreVars
    /\ UNCHANGED objVars
    /\ UNCHANGED shiftVars

\* the user sets the day length, min or max spinbox
SetSpinbox ==
    /\ pc = "idle"
    /\ \/ \E v \in DayLengthInputs : spin' = [spin EXCEPT !.day_length = v]
       \/ \E v \in CovInputs : spin' = [spin EXCEPT !.min_cov = v]
       \/ \E v \in CovInputs : spin' = [spin EXCEPT !.max_cov = v]
    /\ msg' = ""
    /\ UNCHANGED <<employees, emp_tree, last_result>>
    /\ UNCHANGED coreVars
    /\ UNCHANGED objVars
    /\ UNCHANGED shiftVars

CoverageRejected_signs_only(min_cov, max_cov) == min_cov < 0 \/ max_cov < 0

\* the two coverage checks of run_scheduler
CoverageRejected(min_cov, max_cov) ==
    (min_cov < 0 \/ max_cov < 0) \/ min_cov > max_cov

\* SchedulerUI.run_scheduler up to the call of the core and the model it builds
RunScheduler ==
    /\ pc = "idle"
    /\ IF Len(employees) = 0
       THEN /\ msg' = "No employees"
            /\ UNCHANGED coreVars
       ELSE IF CoverageRejected(spin.min_cov, spin.max_cov)
       THEN /\ msg' = "Invalid coverage"
            /\ UNCHANGED coreVars
       ELSE /\ msg' = ""
            /\ BuildModel(CallArgs(employees, spin.day_start, spin.day_length,
                                   DefaultLengths, spin.min_cov, spin.max_cov, TRUE),
                          "ui")
    /\ UNCHANGED <<employees, emp_tree, spin, last_result>>
    /\ UNCHANGED objVars
    /\ UNCHANGED shiftVars

\* run_scheduler after the core returned: keep the result and render it
RunSchedulerFinish ==
    /\ pc = "returned"
    /\ caller = "ui"
    /\ IF result.status # "ok"
       THEN /\ last_result' = "None"
            /\ msg' = "No solution"
       ELSE /\ last_result' = "ok"
            /\ msg' = ""
    /\ ClearFrame
    /\ UNCHANGED <<employees, emp_tree, spin>>
    /\ UNCHANGED objVars
    /\ UNCHANGED shiftVars

NextUI ==
    \/ AddEmployee
    \/ ClearAll
    \/ SetSpinbox
    \/ RunScheduler
    \/ SolveOptimal
    \/ SolveFeasible
    \/ SolveInfeasible
    \/ SolveTimeout
    \/ RunSchedulerFinish

SpecUI == Init /\ [][NextUI]_vars

\* no allowed shift length fits the day
NoShiftFits(a) ==
    \A i \in 1..Len(a.allowed_shift_lengths) :
        a.day_length_hours < a.allowed_shift_lengths[i]

InvalidConfiguration(a) ==
    \/ a.max_workers_per_hour < a.min_workers_per_hour
    \/ a.min_workers_per_hour < 0
    \/ a.max_workers_per_hour < 0
    \/ a.day_length_hours <= 0
    \/ NoShiftFits(a)

DEMO_DATASETS ==
    [key \in {"Feasible (clean schedule)",
              "Understaff demo (forced gap at 12 PM)",
              "Understaff demo (2-hour blackout 11-1)",
              "Busier day (min=2, max=2)"} |->
        CASE key = "Feasible (clean schedule)" ->
                [day_start |-> 8, day_length |-> 12, min_cov |-> 1, max_cov |-> 2,
                 employees |-> <<Employee("Alex", {10}), Employee("Brianna", {12}),
                                 Employee("Carlos", {9, 14}), Employee("Diana", {11}),
                                 Employee("Ethan", {15}), Employee("Faith", {}),
                                 Employee("Gabriel", {13})>>]
          [] key = "Understaff demo (forced gap at 12 PM)" ->
                [day_start |-> 8, day_length |-> 12, min_cov |-> 1, max_cov |-> 2,
                 employees |-> <<Employee("Alex", {12}), Employee("Brianna", {12}),
                                 Employee("Carlos", {12}), Employee("Diana", {12}),
                                 Employee("Ethan", {12}), Employee("Faith", {9, 15})>>]
          [] key = "Understaff demo (2-hour blackout 11-1)" ->
                [day_start |-> 8, day_length |-> 12, min_cov |-> 1, max_cov |-> 2,
                 employees |-> <<Employee("Alex", {11, 12}), Employee("Brianna", {11, 12}),
                                 Employee("Carlos", {11, 12}), Employee("Diana", {11, 12}),
                                 Employee("Ethan", {11, 12}), Employee("Faith", {9, 15})>>]
          [] OTHER ->
                [day_start |-> 8, day_length |-> 12, min_cov |-> 2, max_cov |-> 2,
                 employees |-> <<Employee("Alex", {10}), Employee("Brianna", {12}),
                                 Employee("Carlos", {9, 14}), Employee("Diana", {11}),
                                 Employee("Ethan", {15}), Employee("Faith", {}),
                                 Employee("Gabriel", {13}), Employee("Hannah", {16}),
                                 Employee("Ivan", {8, 17})>>]]

\* SchedulerUI.load_selected_demo with the combobox at key
LoadSelectedDemo(key) ==
    /\ pc = "idle"
    /\ key \in DOMAIN DEMO_DATASETS
    /\ LET data == DEMO_DATASETS[key]
       IN  /\ last_result' = "None"
           /\ spin' = [day_start |-> data.day_start, day_length |-> data.day_length,
                       min_cov |-> data.min_cov, max_cov |-> data.max_cov]
           /\ employees' = data.employees
           /\ emp_tree' = [i \in 1..Len(data.employees) |->
                              TreeRow(data.employees[i].name,
                                      data.employees[i].unavailable)]
           /\ msg' = "Demo Loaded"
    /\ UNCHANGED coreVars
    /\ UNCHANGED objVars
    /\ UNCHANGED shiftVars

ForcedGapDemo == "Understaff demo (forced gap at 12 PM)"

LoadForcedGapDemo == LoadSelectedDemo(ForcedGapDemo)

\* the forced-gap demo is loaded and scheduled, and the solver is given the
\* time to prove its solution optimal
NextDemo ==
    \/ LoadForcedGapDemo
    \/ RunScheduler
    \/ SolveOptimal
    \/ RunSchedulerFinish

SpecDemo == Init /\ [][NextDemo]_vars

\* C8: for the forced-gap demo dataset as defined, every optimal solution has
\* understaff of at least 1 at hour 12 and understaff 0 at every other hour.
C8_ForcedGapAtNoon ==
    (Solved /\ status = "OPTIMAL" /\ args.employees = DEMO_DATASETS[ForcedGapDemo].employees) =>
        /\ result.understaff_by_hour[12] >= 1
        /\ \A h \in Hours(args) \ {12} : result.understaff_by_hour[h] = 0

(***************************************************************************)
(* The objective as a function of its three terms.  Two assignments of one *)
(* model are compared; their terms are drawn from the domains the model    *)
(* declares for total_understaff, spread and total_coverage.               *)
(***************************************************************************)
UnderstaffSamples == {0, 1, 2, TotalMax}
SpreadSamples == {0, 1, WorkHoursMax}
CoverageSamples == {0, 1, 24, 999, 1000, 1001, TotalMax}

\* total_coverage is the sum of the work hours, so it is at least their spread
Terms ==
    {t \in [total_understaff : UnderstaffSamples, spread : SpreadSamples,
            total_coverage : CoverageSamples] : t.total_coverage >= t.spread}

ObjectiveOfTerms(t) == Objective(t.total_understaff, t.spread, t.total_coverage)

InitObjective ==
    /\ UiInit
    /\ CoreInit
    /\ ShiftInit
    /\ terms \in Terms \X Terms
    /\ objective_values = NoValue

\* the solver evaluates the objective of both assignments
EvaluateObjective ==
    /\ objective_values = NoValue
    /\ objective_values' = <<ObjectiveOfTerms(terms[1]), ObjectiveOfTerms(terms[2])>>
    /\ UNCHANGED terms
    /\ UNCHANGED uiVars
    /\ UNCHANGED coreVars
    /\ UNCHANGED shiftVars

SpecObjective == InitObjective /\ [][EvaluateObjective]_vars

Evaluated == objective_values # NoValue

\* the first assignment is at least as good as the second for the solver
FirstNotWorse == objective_values[1] <= objective_values[2]

\* lexicographic order on (total_understaff, spread, total_coverage)
LexNotWorse(a, b) ==
    \/ a.total_understaff < b.total_understaff
    \/ /\ a.total_understaff = b.total_understaff
       /\ \/ a.spread < b.spread
          \/ a.spread = b.spread /\ a.total_coverage <= b.total_coverage

\* C5 as claimed: the weighted objective orders assignments lexicographically,
\* so an assignment the solver finds no worse than another has no more
\* understaff, then no more spread, then no more coverage than it.
C5_Lexicographic ==
    (Evaluated /\ FirstNotWorse) => LexNotWorse(terms[1], terms[2])

\* C5 as amended: an assignment the solver finds no worse than another never
\* has more total understaff; with equal understaff it has no more spread,
\* and then no more coverage, whenever the two total coverages differ by less
\* than the spread weight of 1000.
C5_UnderstaffFirst ==
    (Evaluated /\ FirstNotWorse) =>
        /\ terms[1].total_understaff <= terms[2].total_understaff
        /\ (/\ terms[1].total_understaff = terms[2].total_understaff
            /\ terms[2].total_coverage - terms[1].total_coverage < SpreadWeight
            /\ terms[1].total_coverage - terms[2].total_coverage < SpreadWeight)
           => LexNotWorse(terms[1], terms[2])

\* the solver prefers the first assignment although it has the larger spread
\* and the larger coverage, because it has less understaff
C5_Witness ==
    /\ Evaluated
    /\ objective_values[1] < objective_values[2]
    /\ terms[1].total_understaff < terms[2].total_understaff
    /\ terms[1].spread > terms[2].spread
    /\ terms[1].total_coverage > terms[2].total_coverage

(***************************************************************************)
(* The understaff a proven optimum reports.                                *)
(***************************************************************************)
SolvedOptimal == Solved /\ status = "OPTIMAL"

\* C12: in every result obtained from an optimal solution, the understaff of
\* every hour is exactly the shortfall max(0, min_workers_per_hour - coverage):
\* zero where the coverage meets the minimum, nonzero where it does not.
C12_UnderstaffIsShortfall ==
    SolvedOptimal =>
        \A h \in Hours(args) :
            result.understaff_by_hour[h]
                = Max2(0, args.min_workers_per_hour - result.coverage_by_hour[h])

\* an optimal result with an hour below a positive minimum that reports
\* understaff and an hour that meets the minimum and reports none
C12_Witness ==
    /\ SolvedOptimal
    /\ args.min_workers_per_hour >= 1
    /\ \E h \in Hours(args) :
          /\ result.coverage_by_hour[h] < args.min_workers_per_hour
          /\ result.understaff_by_hour[h] > 0
    /\ \E h \in Hours(args) :
          /\ result.coverage_by_hour[h] >= args.min_workers_per_hour
          /\ result.understaff_by_hour[h] = 0

(***************************************************************************)
(* build_candidate_shifts as a function of its three arguments.            *)
(***************************************************************************)
MaxDayLength == 6   \* longest day handed to build_candidate_shifts
MaxLengths == 2     \* longest tuple of allowed lengths

DayStartSamples == {0, 8, 22}
DayLengthSamples == -1..MaxDayLength
LengthSamples == {0, 1, 2, 4, 5}

AllowedLengthTuples == UNION {[1..n -> LengthSamples] : n \in 0..MaxLengths}

ShiftArgs ==
    [day_start_hour : DayStartSamples,
     day_length_hours : DayLengthSamples,
     allowed_lengths : AllowedLengthTuples]

InitShifts ==
    /\ UiInit
    /\ CoreInit
    /\ ObjInit
    /\ shift_pc = "called"
    /\ shift_args \in ShiftArgs
    /\ shifts = NoValue

\* the call runs to its return statement
BuildCandidateShifts ==
    /\ shift_pc = "called"
    /\ shifts' = build_candidate_shifts(shift_args.day_start_hour,
                                        shift_args.day_length_hours,
                                        shift_args.allowed_lengths)
    /\ shift_pc' = "returned"
    /\ UNCHANGED shift_args
    /\ UNCHANGED uiVars
    /\ UNCHANGED coreVars
    /\ UNCHANGED objVars

SpecShifts == InitShifts /\ [][BuildCandidateShifts]_vars

\* the pairs (start, start + L) that fit the day, as the specification lists them
FittingShifts(a) ==
    {p \in {<<start, start + a.allowed_lengths[j]>> :
                j \in DOMAIN a.allowed_lengths,
                start \in a.day_start_hour..(a.day_start_hour + a.day_length_hours)} :
        p[2] <= a.day_start_hour + a.day_length_hours}

\* how often the pair p is in the list s
Occurrences(s, p) == Cardinality({i \in DOMAIN s : s[i] = p})

\* how often the length of the pair p is in the tuple of allowed lengths
LengthOccurrences(a, p) ==
    Cardinality({j \in DOMAIN a.allowed_lengths : a.allowed_lengths[j] = p[2] - p[1]})

NoLengthFits(a) ==
    \A j \in DOMAIN a.allowed_lengths : a.allowed_lengths[j] > a.day_length_hours

\* C11: build_candidate_shifts returns exactly the pairs (start, start + L)
\* with L an allowed length, start >= day_start and start + L <= day_start +
\* day_length, each pair once per L, and the empty list when no allowed length
\* fits within the day.
C11_CandidateShifts ==
    shift_pc = "returned" =>
        /\ {shifts[i] : i \in DOMAIN shifts} = FittingShifts(shift_args)
        /\ \A p \in FittingShifts(shift_args) :
               Occurrences(shifts, p) = LengthOccurrences(shift_args, p)
        /\ NoLengthFits(shift_args) => shifts = <<>>

\* a call returned several shifts of one length that fits, while another
\* allowed length does not fit the day
C11_Witness ==
    /\ shift_pc = "returned"
    /\ Len(shifts) >= 2
    /\ \E j \in DOMAIN shift_args.allowed_lengths :
          shift_args.allowed_lengths[j] > shift_args.day_length_hours
    /\ \E j \in DOMAIN shift_args.allowed_lengths :
          /\ shift_args.allowed_lengths[j] > 0
          /\ shift_args.allowed_lengths[j] < shift_args.day_length_hours

(***************************************************************************)
(* The employee list and the employee table under the handlers that edit   *)
(* them.  A row of the table is addressed by its position, as              *)
(* emp_tree.index(item) does; positions count from 1 here.                 *)
(***************************************************************************)
MaxTableRows == 2   \* longest list Add Employee extends while rows are edited

\* the elements of S in increasing order
PopOrder_ascending(S) == SortedSeq(S)

\* sorted(idxs, reverse=True)
RECURSIVE PopOrder(_)
PopOrder(S) ==
    IF S = {} THEN <<>>
    ELSE LET m == CHOOSE m \in S : \A y \in S : m >= y
         IN  <<m>> \o PopOrder(S \ {m})

\* list.pop(i)
Pop(s, i) == [k \in 1..(Len(s) - 1) |-> IF k < i THEN s[k] ELSE s[k + 1]]

\* for i in order: if 0 <= i < len(employees): employees.pop(i)
RECURSIVE PopAll(_, _)
PopAll(s, order) ==
    IF order = <<>> THEN s
    ELSE IF 1 <= Head(order) /\ Head(order) <= Len(s)
         THEN PopAll(Pop(s, Head(order)), Tail(order))
         ELSE PopAll(s, Tail(order))

\* emp_tree.delete(item) for every selected item
DeleteRows(rows, sel) ==
    SelectSeq([k \in 1..Len(rows) |-> <<k, rows[k]>>], LAMBDA r : r[1] \notin sel)

RowsOf(indexed) == [k \in 1..Len(indexed) |-> indexed[k][2]]

\* SchedulerUI.remove_selected with the rows at the positions sel selected
RemoveSelected ==
    /\ pc = "idle"
    /\ \E sel \in SUBSET (1..Len(emp_tree)) :
          IF sel = {}
          THEN UNCHANGED <<employees, emp_tree>>
          ELSE /\ emp_tree' = RowsOf(DeleteRows(emp_tree, sel))
               /\ employees' = PopAll(employees, PopOrder(sel))
    /\ msg' = ""
    /\ UNCHANGED <<spin, last_result>>
    /\ UNCHANGED coreVars
    /\ UNCHANGED objVars
    /\ UNCHANGED shiftVars

AddEmployeeToTable == AddEmployeeUpTo(MaxTableRows)

\* Load Selected Demo with any dataset of the combobox
LoadAnyDemo == \E key \in DOMAIN DEMO_DATASETS : LoadSelectedDemo(key)

NextRows ==
    \/ AddEmployeeToTable
    \/ RemoveSelected
    \/ ClearAll
    \/ LoadAnyDemo

SpecRows == Init /\ [][NextRows]_vars

\* the hours a row of the table shows
HoursShown(row) == {row[2][k] : k \in 1..Len(row[2])}

\* C13: after any sequence of add_employee, remove_selected, clear_all and
\* load_selected_demo the employee list and the rows of the employee table
\* have the same length, and the i-th employee's name and unavailable hours
\* are those the i-th row shows.
C13_ListAndTableAligned ==
    /\ Len(employees) = Len(emp_tree)
    /\ \A i \in 1..Len(employees) :
          /\ emp_tree[i][1] = employees[i].name
          /\ HoursShown(emp_tree[i]) = employees[i].unavailable
          /\ emp_tree[i] = TreeRow(employees[i].name, employees[i].unavailable)

\* rows were removed from a loaded demo and an employee was added after them:
\* the list holds a demo employee that is not the demo's first, then Alex as typed
C13_Witness ==
    /\ Len(employees) = 2
    /\ employees[1].name \in {"Carlos", "Diana", "Ivan"}
    /\ employees[2].name = "Alex"
    /\ employees[2].unavailable = {12}
    /\ Len(emp_tree) = 2


====
